---- MODULE Spec2Model ----
(***************************************************************************)
(* Model of src/lambda_function/src/main.py: the scheduled handler that    *)
(* discovers tagged auto-scaling groups region by region and stops or      *)
(* starts them.  One invocation of _execute is a sequential process; every *)
(* cloud API call is one step, and the local computation that follows a    *)
(* call (filtering a page, choosing the workflow, moving to the next       *)
(* group or region, building the response) belongs to the step of that     *)
(* call.  Every call can fail, which raises out of _execute.               *)
(***************************************************************************)
EXTENDS Integers, Sequences, FiniteSets, TLC

VARIABLES
    PARAM_ACTION,              \* self.ACTION (ACTION is a reserved word)
    AWS_REGIONS,               \* PARAM_AWS_REGIONS.split(',')
    cloud,                     \* region -> pages returned by the paginator
    pc,                        \* position of the invocation
    region_idx,                \* index in AWS_REGIONS of aws_region_name
    page_idx,                  \* next page the paginator fetches
    ec2_auto_scaling_groups,   \* matched groups of the current region
    group_idx,                 \* index of ec2_auto_scaling_group
    instance_idx,              \* index of ec2_instance_id
    num_attempts,              \* polls made by the running waiter
    calls,                     \* every API call issued so far, in order
    responses,                 \* success responses returned so far
    suspended,                 \* <<region, group>> with processes suspended
    instance_state,            \* instance id -> state of the instance
    other                      \* locals of a concurrent invocation, parked

vars == <<PARAM_ACTION, AWS_REGIONS, cloud, pc, region_idx, page_idx,
          ec2_auto_scaling_groups, group_idx, instance_idx, num_attempts,
          calls, responses, suspended, instance_state, other>>

----------------------------------------------------------------------------
(* Bounds and input sets *)

MaxInstances == 2
MaxTags == 2

\* WaiterConfig={'Delay': 15, 'MaxAttempts': 30}
MaxAttempts == 30

RESOURCE_TAG_KEY == "env"
RESOURCE_TAG_VALUE == "prod"

ActionValues == {"enable", "start", "disable", "stop", "Stop", "restart"}
RegionNames == {"r1", "r2"}
RegionConfigs == {<<"r1">>, <<"r1", "r2">>, <<"r2", "r1">>, <<"r1", "r1">>}

Tag(k, v) == [Key |-> k, Value |-> v]
\* the configured pair, the key with another value, the value under another key
TagPairs == {Tag(RESOURCE_TAG_KEY, RESOURCE_TAG_VALUE),
             Tag(RESOURCE_TAG_KEY, "dev"),
             Tag("team", RESOURCE_TAG_VALUE)}
TagLists == UNION {[1..n -> TagPairs] : n \in 0..MaxTags}

\* tag lists of the groups the workflows run on: no match on the value, one
\* match and, for the first group, the matching pair listed twice
SingleTagLists ==
    { <<Tag(RESOURCE_TAG_KEY, "dev")>>,
      <<Tag(RESOURCE_TAG_KEY, RESOURCE_TAG_VALUE)>> }
WorkflowTagLists ==
    SingleTagLists \cup
    { <<Tag(RESOURCE_TAG_KEY, RESOURCE_TAG_VALUE),
        Tag(RESOURCE_TAG_KEY, RESOURCE_TAG_VALUE)>> }

GroupNum == [g \in {"G1", "G2", "G3"} |->
                CASE g = "G1" -> 1 [] g = "G2" -> 2 [] g = "G3" -> 3]
InstanceId(g, k) == GroupNum[g] * 10 + k

\* one entry of describe_auto_scaling_groups()['AutoScalingGroups']
Resource(g, tags, n) ==
    [AutoScalingGroupName |-> g,
     Tags |-> tags,
     Instances |-> [k \in 1..n |-> [InstanceId |-> InstanceId(g, k)]]]

GroupShapes(tagLists) ==
    [tags : tagLists, n : 0..MaxInstances]

\* r1 lists G1 and G2 on two pages, r2 lists G3 on one page
WorkflowCloud(s1, s2, s3) ==
    [r \in RegionNames |->
        IF r = "r1"
        THEN << <<Resource("G1", s1.tags, s1.n)>>,
                <<Resource("G2", s2.tags, s2.n)>> >>
        ELSE << <<Resource("G3", s3.tags, s3.n)>> >>]

\* the ways the paginator may cut a listing of two groups into pages
Paginations(g1, g2) ==
    << << <<g1, g2>> >>,
       << <<g1>>, <<g2>> >>,
       << <<g1>>, <<>>, <<g2>> >> >>

\* r1 lists G1 and G2 under pagination cut, r2 lists nothing
DiscoveryCloud(s1, s2, cut) ==
    [r \in RegionNames |->
        IF r = "r1"
        THEN Paginations(Resource("G1", s1.tags, s1.n),
                         Resource("G2", s2.tags, s2.n))[cut]
        ELSE << <<>> >>]

----------------------------------------------------------------------------
(* _get_ec2_auto_scaling_groups_by_tag: the loops over one page *)

\* for instance in resource['Instances']: ec2_instance_ids.append(...)
InstanceIdsOf(resource) ==
    [k \in 1..Len(resource.Instances) |-> resource.Instances[k].InstanceId]

TagMatchesAnyValue(tag, resource, tag_key, tag_value) ==
    /\ tag.Key = tag_key
    /\ Len(resource.Instances) > 0

TagMatchesEmptyGroups(tag, resource, tag_key, tag_value) ==
    /\ tag.Key = tag_key
    /\ tag.Value = tag_value

TagMatches(tag, resource, tag_key, tag_value) ==
    /\ tag.Key = tag_key
    /\ tag.Value = tag_value
    /\ Len(resource.Instances) > 0

\* for tag in resource['Tags']: if ...: ec2_auto_scaling_groups.append(...)
RECURSIVE ScanTags(_, _, _, _, _)
ScanTags(resource, t, tag_key, tag_value, acc) ==
    IF t > Len(resource.Tags) THEN acc
    ELSE ScanTags(resource, t + 1, tag_key, tag_value,
                  IF TagMatches(resource.Tags[t], resource, tag_key, tag_value)
                  THEN Append(acc, [name |-> resource.AutoScalingGroupName,
                                    ec2_instance_ids |-> InstanceIdsOf(resource)])
                  ELSE acc)

\* for resource in resource_page['AutoScalingGroups']
RECURSIVE ScanPage(_, _, _, _, _)
ScanPage(resource_page, j, tag_key, tag_value, acc) ==
    IF j > Len(resource_page) THEN acc
    ELSE ScanPage(resource_page, j + 1, tag_key, tag_value,
                  ScanTags(resource_page[j], 1, tag_key, tag_value, acc))

----------------------------------------------------------------------------
(* What the listing of a region says, stated without the loops *)

RECURSIVE Flatten(_)
Flatten(pages) ==
    IF pages = <<>> THEN <<>> ELSE Head(pages) \o Flatten(Tail(pages))

\* the groups the paginator lists in region r
Listed(r) == {Flatten(cloud[r])[j] : j \in 1..Len(Flatten(cloud[r]))}

HasTagPair(resource) ==
    \E t \in 1..Len(resource.Tags) :
        /\ resource.Tags[t].Key = RESOURCE_TAG_KEY
        /\ resource.Tags[t].Value = RESOURCE_TAG_VALUE

\* the groups of region r that carry the pair and have a member instance
Tagged(r) == {g \in Listed(r) : HasTagPair(g) /\ Len(g.Instances) > 0}
TaggedNames(r) == {g.AutoScalingGroupName : g \in Tagged(r)}
MemberIds(g) == {g.Instances[k].InstanceId : k \in 1..Len(g.Instances)}
Range(seq) == {seq[k] : k \in 1..Len(seq)}

MatchedNames ==
    {ec2_auto_scaling_groups[k].name : k \in 1..Len(ec2_auto_scaling_groups)}

StopFamily == PARAM_ACTION \in {"disable", "stop"}
StartFamily == PARAM_ACTION \in {"enable", "start"}
Calls == 1..Len(calls)

AllInstanceIds ==
    UNION {MemberIds(g) : g \in UNION {Listed(r) : r \in RegionNames}}

----------------------------------------------------------------------------
(* Control flow of _execute between two API calls *)

aws_region_name == AWS_REGIONS[region_idx]
ec2_auto_scaling_groupReversed ==
    ec2_auto_scaling_groups[Len(ec2_auto_scaling_groups) + 1 - group_idx]

ec2_auto_scaling_group == ec2_auto_scaling_groups[group_idx]

Call(op, name, ids, result) ==
    [op |-> op, region |-> aws_region_name, name |-> name, ids |-> ids,
     result |-> result]

ec2_instance_id == ec2_auto_scaling_group.ec2_instance_ids[instance_idx]
GroupKey == <<aws_region_name, ec2_auto_scaling_group.name>>

\* what the calls do to the instances: stop_instances takes a running
\* instance to stopping and is refused on a pending one, start_instances
\* takes a stopped instance to pending and is refused on a stopping one
CanStop(x) == instance_state[x] # "pending"
Stopped(x) ==
    [instance_state EXCEPT ![x] = IF @ = "stopped" THEN "stopped"
                                  ELSE "stopping"]
CanStart(x) == instance_state[x] # "stopping"
Started(x) ==
    [instance_state EXCEPT ![x] = IF @ = "running" THEN "running"
                                  ELSE "pending"]
CanBeRunning(ids) ==
    \A k \in 1..Len(ids) : instance_state[ids[k]] \in {"pending", "running"}
SeenRunning(ids) ==
    [x \in DOMAIN instance_state |->
        IF \E k \in 1..Len(ids) : ids[k] = x THEN "running"
        ELSE instance_state[x]]

RaiseSwallowed ==
    UNCHANGED <<pc, region_idx, page_idx, ec2_auto_scaling_groups, group_idx,
                instance_idx, responses>>

\* an API call raised: the exception leaves _execute
Raise ==
    /\ pc' = "failed"
    /\ UNCHANGED <<region_idx, page_idx, ec2_auto_scaling_groups, group_idx,
                   instance_idx, responses>>

EndRegionEarlyReturn(groups) ==
    /\ pc' = "done"
    /\ responses' = responses + 1
    /\ ec2_auto_scaling_groups' = groups
    /\ UNCHANGED <<region_idx, page_idx, group_idx, instance_idx>>

\* end of the body of `for aws_region_name in self.AWS_REGIONS`
EndRegion(groups) ==
    IF region_idx < Len(AWS_REGIONS)
    THEN /\ pc' = "describe"
         /\ region_idx' = region_idx + 1
         /\ page_idx' = 1
         /\ ec2_auto_scaling_groups' = <<>>
         /\ group_idx' = 1
         /\ instance_idx' = 1
         /\ responses' = responses
    ELSE /\ pc' = "done"
         /\ responses' = responses + 1
         /\ ec2_auto_scaling_groups' = groups
         /\ UNCHANGED <<region_idx, page_idx, group_idx, instance_idx>>

\* if len(...) > 0: if self.ACTION in [...]: start  elif ... in [...]: stop
DispatchSkipSuspend(groups) ==
    IF Len(groups) > 0 /\ PARAM_ACTION \in {"enable", "start"}
    THEN /\ pc' = "start"
         /\ ec2_auto_scaling_groups' = groups
         /\ group_idx' = 1
         /\ instance_idx' = 1
         /\ UNCHANGED <<region_idx, page_idx, responses>>
    ELSE IF Len(groups) > 0 /\ PARAM_ACTION \in {"disable", "stop"}
    THEN /\ pc' = "stop"
         /\ ec2_auto_scaling_groups' = groups
         /\ group_idx' = 1
         /\ instance_idx' = 1
         /\ UNCHANGED <<region_idx, page_idx, responses>>
    ELSE EndRegion(groups)

DispatchElseStop(groups) ==
    IF Len(groups) > 0 /\ PARAM_ACTION \in {"enable", "start"}
    THEN /\ pc' = "start"
         /\ ec2_auto_scaling_groups' = groups
         /\ group_idx' = 1
         /\ instance_idx' = 1
         /\ UNCHANGED <<region_idx, page_idx, responses>>
    ELSE IF Len(groups) > 0
    THEN /\ pc' = "suspend"
         /\ ec2_auto_scaling_groups' = groups
         /\ group_idx' = 1
         /\ instance_idx' = 1
         /\ UNCHANGED <<region_idx, page_idx, responses>>
    ELSE EndRegion(groups)

Dispatch(groups) ==
    IF Len(groups) > 0 /\ PARAM_ACTION \in {"enable", "start"}
    THEN /\ pc' = "start"
         /\ ec2_auto_scaling_groups' = groups
         /\ group_idx' = 1
         /\ instance_idx' = 1
         /\ UNCHANGED <<region_idx, page_idx, responses>>
    ELSE IF Len(groups) > 0 /\ PARAM_ACTION \in {"disable", "stop"}
    THEN /\ pc' = "suspend"
         /\ ec2_auto_scaling_groups' = groups
         /\ group_idx' = 1
         /\ instance_idx' = 1
         /\ UNCHANGED <<region_idx, page_idx, responses>>
    ELSE EndRegion(groups)

NextGroupAlwaysSuspend(first) ==
    IF group_idx < Len(ec2_auto_scaling_groups)
    THEN /\ pc' = "suspend"
         /\ group_idx' = group_idx + 1
         /\ instance_idx' = 1
         /\ UNCHANGED <<region_idx, page_idx, ec2_auto_scaling_groups,
                        responses>>
    ELSE EndRegion(ec2_auto_scaling_groups)

NextGroupOnlyFirst(first) ==
    EndRegion(ec2_auto_scaling_groups)

\* end of the body of `for ec2_auto_scaling_group in ec2_auto_scaling_groups`
NextGroup(first) ==
    IF group_idx < Len(ec2_auto_scaling_groups)
    THEN /\ pc' = first
         /\ group_idx' = group_idx + 1
         /\ instance_idx' = 1
         /\ UNCHANGED <<region_idx, page_idx, ec2_auto_scaling_groups,
                        responses>>
    ELSE EndRegion(ec2_auto_scaling_groups)

----------------------------------------------------------------------------
(* The API calls *)

\* the paginator fetches one page; the page is filtered; after the last page
\* _execute chooses the workflow
DescribeAutoScalingGroups ==
    /\ pc = "describe"
    /\ \E ok \in BOOLEAN :
        /\ calls' = Append(calls, Call("describe", "", <<>>,
                                       IF ok THEN "ok" ELSE "error"))
        /\ IF ~ok THEN Raise
           ELSE LET found == ScanPage(cloud[aws_region_name][page_idx], 1,
                                      RESOURCE_TAG_KEY, RESOURCE_TAG_VALUE,
                                      ec2_auto_scaling_groups)
                IN IF page_idx < Len(cloud[aws_region_name])
                   THEN /\ page_idx' = page_idx + 1
                        /\ ec2_auto_scaling_groups' = found
                        /\ UNCHANGED <<pc, region_idx, group_idx,
                                       instance_idx, responses>>
                   ELSE Dispatch(found)
    /\ UNCHANGED <<PARAM_ACTION, AWS_REGIONS, cloud, num_attempts, suspended,
                   instance_state, other>>

\* autoscaling_client.suspend_processes(AutoScalingGroupName=...)
SuspendProcesses ==
    /\ pc = "suspend"
    /\ \E ok \in BOOLEAN :
        /\ calls' = Append(calls, Call("suspend", ec2_auto_scaling_group.name,
                                       <<>>, IF ok THEN "ok" ELSE "error"))
        /\ suspended' = IF ok THEN suspended \cup {GroupKey} ELSE suspended
        /\ IF ~ok THEN Raise
           ELSE /\ pc' = "stop"
                /\ instance_idx' = 1
                /\ UNCHANGED <<region_idx, page_idx, ec2_auto_scaling_groups,
                               group_idx, responses>>
    /\ UNCHANGED <<PARAM_ACTION, AWS_REGIONS, cloud, num_attempts,
                   instance_state, other>>

StopInstancesThenWait ==
    /\ pc = "stop"
    /\ \E ok \in BOOLEAN :
        /\ calls' = Append(calls,
                Call("stop", "",
                     <<ec2_instance_id>>,
                     IF ok THEN "ok" ELSE "error"))
        /\ ok => CanStop(ec2_instance_id)
        /\ instance_state' = IF ok THEN Stopped(ec2_instance_id)
                             ELSE instance_state
        /\ IF ~ok THEN Raise
           ELSE IF instance_idx < Len(ec2_auto_scaling_group.ec2_instance_ids)
           THEN /\ instance_idx' = instance_idx + 1
                /\ UNCHANGED <<pc, region_idx, page_idx,
                               ec2_auto_scaling_groups, group_idx, responses>>
           ELSE /\ pc' = "wait"
                /\ UNCHANGED <<region_idx, page_idx, ec2_auto_scaling_groups,
                               group_idx, instance_idx, responses>>
    /\ UNCHANGED <<PARAM_ACTION, AWS_REGIONS, cloud, num_attempts, suspended,
                   other>>

\* ec2_client.stop_instances(InstanceIds=[ec2_instance_id])
StopInstances ==
    /\ pc = "stop"
    /\ \E ok \in BOOLEAN :
        /\ calls' = Append(calls,
                Call("stop", "",
                     <<ec2_instance_id>>,
                     IF ok THEN "ok" ELSE "error"))
        /\ ok => CanStop(ec2_instance_id)
        /\ instance_state' = IF ok THEN Stopped(ec2_instance_id)
                             ELSE instance_state
        /\ IF ~ok THEN Raise
           ELSE IF instance_idx < Len(ec2_auto_scaling_group.ec2_instance_ids)
           THEN /\ instance_idx' = instance_idx + 1
                /\ UNCHANGED <<pc, region_idx, page_idx,
                               ec2_auto_scaling_groups, group_idx, responses>>
           ELSE NextGroup("suspend")
    /\ UNCHANGED <<PARAM_ACTION, AWS_REGIONS, cloud, num_attempts, suspended,
                   other>>

StartInstancesWaitEarly ==
    /\ pc = "start"
    /\ \E ok \in BOOLEAN :
        /\ calls' = Append(calls,
                Call("start", "",
                     <<ec2_instance_id>>,
                     IF ok THEN "ok" ELSE "error"))
        /\ ok => CanStart(ec2_instance_id)
        /\ instance_state' = IF ok THEN Started(ec2_instance_id)
                             ELSE instance_state
        /\ IF ~ok THEN Raise
           ELSE /\ pc' = "wait"
                /\ UNCHANGED <<region_idx, page_idx, ec2_auto_scaling_groups,
                               group_idx, instance_idx, responses>>
    /\ UNCHANGED <<PARAM_ACTION, AWS_REGIONS, cloud, num_attempts, suspended,
                   other>>

\* ec2_client.start_instances(InstanceIds=[ec2_instance_id])
StartInstances ==
    /\ pc = "start"
    /\ \E ok \in BOOLEAN :
        /\ calls' = Append(calls,
                Call("start", "",
                     <<ec2_instance_id>>,
                     IF ok THEN "ok" ELSE "error"))
        /\ ok => CanStart(ec2_instance_id)
        /\ instance_state' = IF ok THEN Started(ec2_instance_id)
                             ELSE instance_state
        /\ IF ~ok THEN Raise
           ELSE IF instance_idx < Len(ec2_auto_scaling_group.ec2_instance_ids)
           THEN /\ instance_idx' = instance_idx + 1
                /\ UNCHANGED <<pc, region_idx, page_idx,
                               ec2_auto_scaling_groups, group_idx, responses>>
           ELSE /\ pc' = "wait"
                /\ UNCHANGED <<region_idx, page_idx, ec2_auto_scaling_groups,
                               group_idx, instance_idx, responses>>
    /\ UNCHANGED <<PARAM_ACTION, AWS_REGIONS, cloud, num_attempts, suspended,
                   other>>

WaiterOutcomeOffByOne(seen, n) ==
    CASE seen = "running" -> "ok"
      [] seen = "error" -> "error"
      [] OTHER -> IF n >= MaxAttempts - 1 THEN "timeout" ELSE "retry"

WaiterOutcomeNoLimit(seen, n) ==
    CASE seen = "running" -> "ok"
      [] seen = "error" -> "error"
      [] OTHER -> "retry"

\* what the waiter does after its n-th poll: return, raise, or sleep and
\* poll again; it raises once MaxAttempts polls have not seen the instances
\* running
WaiterOutcome(seen, n) ==
    CASE seen = "running" -> "ok"
      [] seen = "error" -> "error"
      [] OTHER -> IF n >= MaxAttempts THEN "timeout" ELSE "retry"

\* ec2_instance_running_waiter.wait(InstanceIds=..., WaiterConfig=...):
\* one poll of the waiter.  The first poll is the issue of the call; a
\* poll sees every instance running, or not yet, or fails.
WaitInstanceRunning ==
    /\ pc = "wait"
    /\ num_attempts < MaxAttempts
    /\ \E seen \in {"running", "pending", "error"} :
        LET n == num_attempts + 1
            ids == ec2_auto_scaling_group.ec2_instance_ids
            issued == IF num_attempts = 0
                      THEN Append(calls, Call("wait", "", ids, "issued"))
                      ELSE calls
            outcome == WaiterOutcome(seen, n)
        IN /\ seen = "running" => CanBeRunning(ids)
           /\ CASE outcome = "ok" ->
                  /\ calls' = Append(issued, Call("wait", "", ids, "ok"))
                  /\ instance_state' = SeenRunning(ids)
                  /\ num_attempts' = 0
                  /\ pc' = "resume"
                  /\ UNCHANGED <<region_idx, page_idx, ec2_auto_scaling_groups,
                                 group_idx, instance_idx, responses>>
             [] outcome = "retry" ->
                  /\ calls' = issued
                  /\ UNCHANGED instance_state
                  /\ num_attempts' = n
                  /\ UNCHANGED <<pc, region_idx, page_idx,
                                 ec2_auto_scaling_groups, group_idx,
                                 instance_idx, responses>>
             [] OTHER ->
                  /\ calls' = Append(issued, Call("wait", "", ids, outcome))
                  /\ UNCHANGED instance_state
                  /\ num_attempts' = n
                  /\ Raise
    /\ UNCHANGED <<PARAM_ACTION, AWS_REGIONS, cloud, suspended, other>>

ResumeProcessesAsSuspend ==
    /\ pc = "resume"
    /\ \E ok \in BOOLEAN :
        /\ calls' = Append(calls, Call("suspend", ec2_auto_scaling_group.name,
                                       <<>>, IF ok THEN "ok" ELSE "error"))
        /\ suspended' = IF ok THEN suspended \cup {GroupKey} ELSE suspended
        /\ IF ~ok THEN Raise ELSE NextGroup("start")
    /\ UNCHANGED <<PARAM_ACTION, AWS_REGIONS, cloud, num_attempts,
                   instance_state, other>>

\* autoscaling_client.resume_processes(AutoScalingGroupName=...)
ResumeProcesses ==
    /\ pc = "resume"
    /\ \E ok \in BOOLEAN :
        /\ calls' = Append(calls, Call("resume", ec2_auto_scaling_group.name,
                                       <<>>, IF ok THEN "ok" ELSE "error"))
        /\ suspended' = IF ok THEN suspended \ {GroupKey} ELSE suspended
        /\ IF ~ok THEN Raise ELSE NextGroup("start")
    /\ UNCHANGED <<PARAM_ACTION, AWS_REGIONS, cloud, num_attempts,
                   instance_state, other>>

----------------------------------------------------------------------------
(* Specifications *)

\* _execute is entered: nothing listed, nothing called, nothing returned
Entered ==
    /\ pc = "describe"
    /\ region_idx = 1
    /\ page_idx = 1
    /\ ec2_auto_scaling_groups = <<>>
    /\ group_idx = 1
    /\ instance_idx = 1
    /\ num_attempts = 0
    /\ calls = <<>>
    /\ responses = 0

\* no second invocation
NoInvocation ==
    [PARAM_ACTION |-> "", AWS_REGIONS |-> <<>>, pc |-> "none",
     region_idx |-> 1, page_idx |-> 1, ec2_auto_scaling_groups |-> <<>>,
     group_idx |-> 1, instance_idx |-> 1, num_attempts |-> 0, responses |-> 0]

\* the groups as a stop left them, or as a start left them
CloudRunning ==
    /\ suspended = {}
    /\ instance_state = [x \in AllInstanceIds |-> "running"]
CloudStopped ==
    /\ suspended = UNION {{<<r, n>> : n \in TaggedNames(r)} : r \in RegionNames}
    /\ instance_state = [x \in AllInstanceIds |-> "stopped"]

Init ==
    /\ PARAM_ACTION \in ActionValues
    /\ AWS_REGIONS \in RegionConfigs
    /\ \E s1 \in GroupShapes(WorkflowTagLists) :
       \E s2, s3 \in GroupShapes(SingleTagLists) :
           cloud = WorkflowCloud(s1, s2, s3)
    /\ Entered
    /\ CloudRunning
    /\ other = NoInvocation

Next ==
    \/ DescribeAutoScalingGroups
    \/ SuspendProcesses
    \/ StopInstances
    \/ StartInstances
    \/ WaitInstanceRunning
    \/ ResumeProcesses

Spec == Init /\ [][Next]_vars

\* the invocation is one running thread: it takes its next step
FairSpec == Spec /\ WF_vars(Next)

\* discovery alone, over every tag list and pagination of one region
InitDiscovery ==
    /\ PARAM_ACTION = "stop"
    /\ AWS_REGIONS = <<"r1">>
    /\ \E s1, s2 \in GroupShapes(TagLists) : \E cut \in 1..3 :
           cloud = DiscoveryCloud(s1, s2, cut)
    /\ Entered
    /\ CloudRunning
    /\ other = NoInvocation
NextDiscovery == DescribeAutoScalingGroups
SpecDiscovery == InitDiscovery /\ [][NextDiscovery]_vars

\* the instances follow the calls on their own time: a stopping instance
\* becomes stopped, a pending one running
InstanceSettles ==
    /\ \E x \in DOMAIN instance_state :
        /\ instance_state[x] \in {"stopping", "pending"}
        /\ instance_state' =
              [instance_state EXCEPT ![x] = IF @ = "stopping" THEN "stopped"
                                            ELSE "running"]
    /\ UNCHANGED <<PARAM_ACTION, AWS_REGIONS, cloud, pc, region_idx, page_idx,
                   ec2_auto_scaling_groups, group_idx, instance_idx,
                   num_attempts, calls, responses, suspended, other>>

\* one invocation with the instances changing state beside it
InitSettling ==
    /\ PARAM_ACTION \in {"stop", "disable", "start"}
    /\ AWS_REGIONS \in {<<"r1">>, <<"r1", "r2">>}
    /\ \E s1, s2, s3 \in GroupShapes(SingleTagLists) :
           cloud = WorkflowCloud(s1, s2, s3)
    /\ Entered
    /\ CloudRunning \/ CloudStopped
    /\ other = NoInvocation
NextSettling == Next \/ InstanceSettles
SpecSettling == InitSettling /\ [][NextSettling]_vars

\* the locals of the running invocation
Locals ==
    [PARAM_ACTION |-> PARAM_ACTION, AWS_REGIONS |-> AWS_REGIONS, pc |-> pc,
     region_idx |-> region_idx, page_idx |-> page_idx,
     ec2_auto_scaling_groups |-> ec2_auto_scaling_groups,
     group_idx |-> group_idx, instance_idx |-> instance_idx,
     num_attempts |-> num_attempts, responses |-> responses]

\* lambda_handler builds a new object per invocation: between two API calls
\* of one invocation a second, unfinished invocation may run
Switch ==
    /\ other.pc \notin {"none", "done", "failed"}
    /\ other' = Locals
    /\ PARAM_ACTION' = other.PARAM_ACTION
    /\ AWS_REGIONS' = other.AWS_REGIONS
    /\ pc' = other.pc
    /\ region_idx' = other.region_idx
    /\ page_idx' = other.page_idx
    /\ ec2_auto_scaling_groups' = other.ec2_auto_scaling_groups
    /\ group_idx' = other.group_idx
    /\ instance_idx' = other.instance_idx
    /\ num_attempts' = other.num_attempts
    /\ responses' = other.responses
    /\ UNCHANGED <<cloud, calls, suspended, instance_state>>

\* a start invocation and a stop invocation on one region with one tagged
\* group
InitConcurrent ==
    /\ PARAM_ACTION = "start"
    /\ AWS_REGIONS = <<"r1">>
    /\ \E n \in 1..MaxInstances :
           cloud = WorkflowCloud(
                     [tags |-> <<Tag(RESOURCE_TAG_KEY, RESOURCE_TAG_VALUE)>>,
                      n |-> n],
                     [tags |-> <<Tag(RESOURCE_TAG_KEY, "dev")>>, n |-> 0],
                     [tags |-> <<Tag(RESOURCE_TAG_KEY, "dev")>>, n |-> 0])
    /\ Entered
    /\ CloudRunning \/ CloudStopped
    /\ other = [NoInvocation EXCEPT !.PARAM_ACTION = "stop",
                                    !.AWS_REGIONS = <<"r1">>,
                                    !.pc = "describe"]
NextConcurrent == Next \/ Switch \/ InstanceSettles
SpecConcurrent == InitConcurrent /\ [][NextConcurrent]_vars

----------------------------------------------------------------------------
(* Claims *)

\* C1: with ACTION stop or disable, every stop call for an instance comes
\* after a suspend call for the group the instance is a member of, issued
\* in the same pass over the region (no listing call in between).
C1_SuspendBeforeStop ==
    StopFamily =>
        \A j \in Calls :
            calls[j].op = "stop" =>
                \E i \in 1..(j - 1) :
                    /\ calls[i].op = "suspend"
                    /\ calls[i].region = calls[j].region
                    /\ \E g \in Listed(calls[j].region) :
                        /\ g.AutoScalingGroupName = calls[i].name
                        /\ calls[j].ids[1] \in MemberIds(g)
                    /\ \A k \in i..j : calls[k].op # "describe"

\* a second group of one region has had an instance stopped
C1_Witness ==
    /\ StopFamily
    /\ \E j \in Calls :
        /\ calls[j].op = "stop"
        /\ calls[j].region = "r1"
        /\ calls[j].ids = <<InstanceId("G2", 1)>>
    /\ \E j \in Calls :
        calls[j].op = "stop" /\ calls[j].ids = <<InstanceId("G1", 2)>>

\* C2: with ACTION start or enable, when the wait of a group is issued every
\* member instance has a start call in the run of start calls that ends at
\* the wait, and a resume call for a group directly follows the return of
\* the wait that saw that group's instances running.
C2_StartWaitResume ==
    StartFamily =>
        \A j \in Calls :
            /\ (calls[j].op = "wait" /\ calls[j].result = "issued") =>
                  \A x \in Range(calls[j].ids) :
                      \E i \in 1..(j - 1) :
                          /\ calls[i].op = "start"
                          /\ calls[i].ids = <<x>>
                          /\ calls[i].result = "ok"
                          /\ calls[i].region = calls[j].region
                          /\ \A k \in i..(j - 1) : calls[k].op = "start"
            /\ calls[j].op = "resume" =>
                  /\ j > 1
                  /\ calls[j - 1].op = "wait"
                  /\ calls[j - 1].result = "ok"
                  /\ calls[j - 1].region = calls[j].region
                  /\ \E g \in Listed(calls[j].region) :
                      /\ g.AutoScalingGroupName = calls[j].name
                      /\ Range(calls[j - 1].ids) = MemberIds(g)

\* a group of two instances has been started, waited for and resumed
C2_Witness ==
    /\ StartFamily
    /\ \E j \in Calls :
        /\ calls[j].op = "resume"
        /\ calls[j].name = "G1"
        /\ calls[j - 1].ids = <<InstanceId("G1", 1), InstanceId("G1", 2)>>

\* C3: once the listing of a region has been read to its last page, a listed
\* group is in the matched list exactly when one of its tags equals the
\* configured key and value and it has at least one member instance.
C3_MatchedIffTagged ==
    pc \notin {"describe", "failed"} =>
        MatchedNames = TaggedNames(aws_region_name)

\* a tagged group on a later page is matched while a tagged group without
\* instances and a group without the pair are not
C3_Witness ==
    /\ pc \notin {"describe", "failed"}
    /\ Len(cloud[aws_region_name]) > 1
    /\ MatchedNames = {"G2"}
    /\ \E g \in Listed(aws_region_name) :
        /\ g.AutoScalingGroupName = "G1"
        /\ Len(g.Instances) = 0
        /\ HasTagPair(g)

\* C4: with an ACTION other than enable, start, disable, stop, the listing
\* calls are the only API calls of the invocation.
C4_UnrecognizedActionNoCalls ==
    PARAM_ACTION \notin {"enable", "start", "disable", "stop"} =>
        \A j \in Calls : calls[j].op = "describe"

\* the invocation has returned after listing two regions with tagged groups
C4_Witness ==
    /\ PARAM_ACTION = "Stop"
    /\ pc = "done"
    /\ Len(AWS_REGIONS) = 2
    /\ \A k \in 1..2 : TaggedNames(AWS_REGIONS[k]) # {}

C6_OnlyMatchedTargets ==
    \A j \in Calls :
        LET c == calls[j] IN
        /\ c.op \in {"suspend", "resume"} => c.name \in TaggedNames(c.region)
        /\ c.op \in {"start", "stop"} =>
              /\ Len(c.ids) = 1
              /\ \E g \in Tagged(c.region) : c.ids[1] \in MemberIds(g)
        /\ c.op = "wait" =>
              \E g \in Tagged(c.region) : Range(c.ids) = MemberIds(g)

\* a region with a tagged and an untagged group, both with instances, has
\* been stopped
C6_Witness ==
    /\ StopFamily
    /\ pc = "done"
    /\ TaggedNames("r1") = {"G1"}
    /\ \E g \in Listed("r1") :
        g.AutoScalingGroupName = "G2" /\ Len(g.Instances) > 0
    /\ \E j \in Calls : calls[j].op = "stop" /\ calls[j].region = "r1"

\* C7: a call that failed is the last call of the invocation, the
\* invocation has failed and no response is returned.
C7_FailurePropagates ==
    \A j \in Calls :
        calls[j].result \in {"error", "timeout"} =>
            /\ j = Len(calls)
            /\ pc = "failed"
            /\ responses = 0

\* the stop of the first of two instances failed, with a second tagged group
\* and a second region still to do
C7_Witness ==
    /\ pc = "failed"
    /\ calls[Len(calls)].op = "stop"
    /\ calls[Len(calls)].ids = <<InstanceId("G1", 1)>>
    /\ TaggedNames("r1") = {"G1", "G2"}
    /\ \E g \in Tagged("r1") : Len(g.Instances) = 2 /\ g.AutoScalingGroupName = "G1"
    /\ AWS_REGIONS = <<"r1", "r2">>

RECURSIVE PagesOf(_)
PagesOf(regions) ==
    IF regions = <<>> THEN 0
    ELSE Len(cloud[Head(regions)]) + PagesOf(Tail(regions))

OkCalls(op) == {j \in Calls : calls[j].op = op /\ calls[j].result = "ok"}
SomeCallFailed == \E j \in Calls : calls[j].result \in {"error", "timeout"}

C8_Returned ==
    /\ responses \in {0, 1}
    /\ responses = 1 =>
          /\ pc = "done"
          /\ Cardinality(OkCalls("describe")) = PagesOf(AWS_REGIONS)
          /\ calls[Len(calls)].region = AWS_REGIONS[Len(AWS_REGIONS)]
          /\ calls[Len(calls)].op \in {"describe", "stop", "resume"}
          /\ ~SomeCallFailed

\* C8: at most one response is returned and it is never taken back; when it
\* is returned every page of every configured region has been listed and the
\* last call is the end of the last region's workflow; an invocation in
\* which no call fails returns it eventually.
C8_ResponseOnceAfterAllRegions ==
    /\ []C8_Returned
    /\ [][responses' >= responses]_vars
    /\ <>(SomeCallFailed \/ responses = 1)

\* the response is returned after two regions with tagged groups were started
C8_Witness ==
    /\ responses = 1
    /\ StartFamily
    /\ AWS_REGIONS = <<"r2", "r1">>
    /\ TaggedNames("r1") # {} /\ TaggedNames("r2") # {}

Occurrences(r) == Cardinality({k \in 1..Len(AWS_REGIONS) : AWS_REGIONS[k] = r})
CallCount(op, r, name, ids) ==
    Cardinality({j \in OkCalls(op) : /\ calls[j].region = r
                                     /\ calls[j].name = name
                                     /\ calls[j].ids = ids})

\* C9: when the response is returned under a recognized ACTION, every tagged
\* group of every configured region has, once per listing of its region, an
\* ok suspend call and an ok stop call per member instance (stop family) or
\* an ok start call per member instance and an ok resume call (start family).
C9_AllMatchedProcessed ==
    (responses = 1 /\ (StopFamily \/ StartFamily)) =>
        \A r \in Range(AWS_REGIONS) : \A g \in Tagged(r) :
            /\ CallCount(IF StopFamily THEN "suspend" ELSE "resume", r,
                         g.AutoScalingGroupName, <<>>) >= Occurrences(r)
            /\ \A x \in MemberIds(g) :
                CallCount(IF StopFamily THEN "stop" ELSE "start", r, "",
                          <<x>>) >= Occurrences(r)

\* the response is returned after two tagged groups of one region and a
\* tagged group of another were stopped
C9_Witness ==
    /\ responses = 1
    /\ StopFamily
    /\ TaggedNames("r1") = {"G1", "G2"}
    /\ TaggedNames("r2") = {"G3"}
    /\ Len(AWS_REGIONS) = 2 /\ AWS_REGIONS[1] # AWS_REGIONS[2]

----------------------------------------------------------------------------
(* The order of the calls of one invocation, read off the listing *)

Target(op, r, name, ids) == [op |-> op, region |-> r, name |-> name, ids |-> ids]
TargetOf(c) == Target(c.op, c.region, c.name, c.ids)

RECURSIVE Repeat(_, _)
Repeat(seq, n) == IF n = 0 THEN <<>> ELSE seq \o Repeat(seq, n - 1)

\* number of entries the listed group g has in the matched list
Copies(g) ==
    IF Len(g.Instances) = 0 THEN 0
    ELSE Cardinality({t \in 1..Len(g.Tags) :
                        /\ g.Tags[t].Key = RESOURCE_TAG_KEY
                        /\ g.Tags[t].Value = RESOURCE_TAG_VALUE})

\* the calls of one pass of a workflow over the listed group g of region r
GroupCalls(r, g) ==
    LET ids == [k \in 1..Len(g.Instances) |-> g.Instances[k].InstanceId]
        each(op) == [k \in 1..Len(ids) |-> Target(op, r, "", <<ids[k]>>)]
    IN IF StopFamily
       THEN <<Target("suspend", r, g.AutoScalingGroupName, <<>>)>> \o each("stop")
       ELSE IF StartFamily
       THEN each("start")
            \o <<Target("wait", r, "", ids), Target("wait", r, "", ids),
                 Target("resume", r, g.AutoScalingGroupName, <<>>)>>
       ELSE <<>>

RECURSIVE WorkflowCalls(_, _)
WorkflowCalls(r, groups) ==
    IF groups = <<>> THEN <<>>
    ELSE Repeat(GroupCalls(r, Head(groups)), Copies(Head(groups)))
         \o WorkflowCalls(r, Tail(groups))

RegionCalls(r) ==
    [k \in 1..Len(cloud[r]) |-> Target("describe", r, "", <<>>)]
    \o WorkflowCalls(r, Flatten(cloud[r]))

RECURSIVE InvocationCalls(_)
InvocationCalls(regions) ==
    IF regions = <<>> THEN <<>>
    ELSE RegionCalls(Head(regions)) \o InvocationCalls(Tail(regions))

\* C11: the calls issued so far are, in order, the first calls of the
\* sequence "regions in configuration order; in a region every page of the
\* listing, then the groups in listing order, each with all its calls;
\* in a group the instances in member-list order"; at the response they
\* are the whole sequence.
C11_StrictlySequential ==
    LET expected == InvocationCalls(AWS_REGIONS) IN
    /\ Len(calls) <= Len(expected)
    /\ \A j \in Calls : TargetOf(calls[j]) = expected[j]
    /\ pc = "done" => Len(calls) = Len(expected)

\* two groups of two instances in one region and a group in a second region
\* have been started
C11_Witness ==
    /\ pc = "done"
    /\ StartFamily
    /\ AWS_REGIONS = <<"r1", "r2">>
    /\ TaggedNames("r1") = {"G1", "G2"}
    /\ TaggedNames("r2") = {"G3"}
    /\ \A g \in Tagged("r1") : Len(g.Instances) = 2

Terminated == pc \in {"done", "failed"}

\* C12: every invocation ends, with the response or with a failed call, and
\* a wait never makes more than MaxAttempts polls.
C12_Terminates ==
    /\ <>Terminated
    /\ [](num_attempts <= MaxAttempts)
    /\ [](pc = "wait" => num_attempts < MaxAttempts)

\* the wait of a second group has polled all but its last attempt
C12_Witness ==
    /\ pc = "wait"
    /\ group_idx = 2
    /\ num_attempts = MaxAttempts - 1

\* C15: a start-family invocation issues no suspend and no stop call, a
\* stop-family invocation no start, wait or resume call.
C15_WorkflowsExclusive ==
    /\ StartFamily => \A j \in Calls : calls[j].op \notin {"suspend", "stop"}
    /\ StopFamily =>
          \A j \in Calls : calls[j].op \notin {"start", "wait", "resume"}

\* a start-family invocation failed in its second region after finishing two
\* groups of the first
C15_Witness ==
    /\ StartFamily
    /\ pc = "failed"
    /\ region_idx = 2
    /\ Cardinality(OkCalls("resume")) >= 2
    /\ calls[Len(calls)].op = "wait"

\* C13: a stop-family invocation is never in the start workflow's wait;
\* the call after a stop call is the next stop, the next group's suspend or
\* the next region's listing; after the ok stop of the last member of the
\* last group of the last region the response is returned at once; and at
\* the response each member of a tagged group is stopping or stopped,
\* whichever it happens to be.
C13_StopDoesNotWait ==
    StopFamily =>
        /\ pc \notin {"start", "wait", "resume"}
        /\ \A j \in Calls :
              (calls[j].op = "stop" /\ j < Len(calls)) =>
                  calls[j + 1].op \in {"stop", "suspend", "describe"}
        /\ (/\ calls # <<>>
            /\ calls[Len(calls)].op = "stop"
            /\ calls[Len(calls)].result = "ok"
            /\ region_idx = Len(AWS_REGIONS)
            /\ group_idx = Len(ec2_auto_scaling_groups)
            /\ instance_idx = Len(ec2_auto_scaling_group.ec2_instance_ids)
            /\ calls[Len(calls)].ids = <<ec2_instance_id>>)
           => (pc = "done" /\ responses = 1)
        /\ responses = 1 =>
              \A r \in Range(AWS_REGIONS) : \A g \in Tagged(r) :
                  \A x \in MemberIds(g) :
                      instance_state[x] \in {"stopping", "stopped"}

\* the response is returned while an instance that was running is still
\* stopping and another one has already stopped
C13_Witness ==
    /\ StopFamily
    /\ responses = 1
    /\ InstanceId("G1", 2) \in DOMAIN instance_state
    /\ instance_state[InstanceId("G1", 2)] = "stopping"
    /\ instance_state[InstanceId("G1", 1)] = "stopped"
    /\ \E j \in Calls : calls[j].ids = <<InstanceId("G1", 1)>>

BothCompleted == pc = "done" /\ other.pc = "done"

\* the last ok call among ops on the group name or the instance list
LastOp(ops, r, name, ids) ==
    LET hits == {j \in Calls : /\ calls[j].op \in ops
                               /\ calls[j].result = "ok"
                               /\ calls[j].region = r
                               /\ calls[j].name = name
                               /\ calls[j].ids = ids}
    IN IF hits = {} THEN "none"
       ELSE calls[CHOOSE j \in hits : \A k \in hits : k <= j].op

\* C14: when a start and a stop invocation on the same group have both
\* returned their response, each has issued all its calls for the group
\* whatever the other did, and what is left is what the last call on each
\* resource made of it: the processes are suspended exactly when the last
\* of the suspend and resume calls was the suspend, an instance is stopping
\* or stopped exactly when the last of its start and stop calls was the stop.
C14_LastCallWins ==
    BothCompleted =>
        \A g \in Tagged("r1") :
            LET name == g.AutoScalingGroupName IN
            /\ CallCount("suspend", "r1", name, <<>>) >= 1
            /\ CallCount("resume", "r1", name, <<>>) >= 1
            /\ (<<"r1", name>> \in suspended)
                  <=> (LastOp({"suspend", "resume"}, "r1", name, <<>>)
                          = "suspend")
            /\ \A x \in MemberIds(g) :
                /\ CallCount("stop", "r1", "", <<x>>) >= 1
                /\ CallCount("start", "r1", "", <<x>>) >= 1
                /\ (instance_state[x] \in {"stopping", "stopped"})
                      <=> (LastOp({"start", "stop"}, "r1", "", <<x>>) = "stop")

\* both invocations have returned, the processes of the group are resumed
\* and its two instances are stopped
C14_Witness ==
    /\ BothCompleted
    /\ <<"r1", "G1">> \notin suspended
    /\ LastOp({"suspend", "resume"}, "r1", "G1", <<>>) = "resume"
    /\ InstanceId("G1", 2) \in DOMAIN instance_state
    /\ instance_state[InstanceId("G1", 1)] = "stopped"
    /\ instance_state[InstanceId("G1", 2)] = "stopped"

====
